---- MODULE Spec2Model ----
(***************************************************************************)
(* Inventory backend of the DL4SE demo API (backend/main.py and            *)
(* backend/database.py): the inventory_items and predictions_log tables,   *)
(* the images directory and the predict / upload / classify / update /     *)
(* batch-update / ai-insights handlers.                                    *)
(*                                                                         *)
(* Representation.                                                         *)
(*  - A Python str is a sequence of tokens.  A token is either a white     *)
(*    space character (" " or "\n") or a run of non-blank characters, so   *)
(*    "  cleared " is <<" ", " ", "cleared", " ">> and "" is <<>>.         *)
(*    str.strip(), truthiness and concatenation act on these sequences as  *)
(*    they do on the characters.                                           *)
(*  - Python None for a str-typed value is the reserved one-token sequence *)
(*    None; SQL NULL / None for score and label is the number NULL.        *)
(*  - score is the softmax probability in hundredths (85 is 0.85).         *)
(*  - uuid4 ids are drawn from 1..MaxIds in order (each draw is fresh); a  *)
(*    record's image file "<id>.png" is files[id]; time.time() at the      *)
(*    insertion is the logical clock value of the draw.                    *)
(***************************************************************************)
EXTENDS Integers, Sequences, FiniteSets, TLC

VARIABLES
    store,      \* inventory_items table: id -> row
    files,      \* INVENTORY_IMAGES_DIR: id -> kind of bytes in "<id>.png"
    nextId,     \* next uuid4 draw / clock reading
    last,       \* the last completed request and its response
    reqs,       \* in-flight PATCH requests (handler position and locals)
    base,       \* table contents when the first in-flight request arrived
    predictions_log   \* predictions_log table: the rows in insertion order

vars == <<store, files, nextId, last, reqs, base, predictions_log>>

----------------------------------------------------------------------------
(* Bounds *)

MaxIds == 1          \* uuid4 draws in the lifecycle specification
MaxUploadIds == 2    \* uuid4 draws in the upload specification
MaxBatch == 2        \* entries in one upload request
MaxNotesLen == 3     \* tokens in a stored notes value
MaxRequestIds == 2   \* ids listed in one ai-insights request
MaxLog == 2          \* rows in the predictions_log table

----------------------------------------------------------------------------
(* Strings *)

None == <<"None">>
NULL == -1

IsSpace(c) == c \in {" ", "\n"}

RECURSIVE lstrip(_)
lstrip(s) == IF s # <<>> /\ IsSpace(Head(s)) THEN lstrip(Tail(s)) ELSE s

RECURSIVE rstrip(_)
rstrip(s) ==
    IF s # <<>> /\ IsSpace(s[Len(s)]) THEN rstrip(SubSeq(s, 1, Len(s) - 1)) ELSE s

strip(s) == rstrip(lstrip(s))

\* Python `x or y` on str | None operands.
Or(x, y) == IF x = None \/ x = <<>> THEN y ELSE x

\* dict.get(key, default): an absent key is None in the entry.
Get(v, default) == IF v = None THEN default ELSE v

----------------------------------------------------------------------------
(* Status validation *)

ALLOWED_STATUSES ==
    {<<"awaiting_review">>, <<"in_review">>, <<"needs_attention">>, <<"cleared">>}

HTTP400 == <<"HTTPException(400)">>

ensure_valid_status_unchecked(value) ==
    Or(strip(Or(value, <<>>)), <<"awaiting_review">>)

ensure_valid_status(value) ==
    LET candidate == Or(strip(Or(value, <<>>)), <<"awaiting_review">>)
    IN  IF candidate \notin ALLOWED_STATUSES THEN HTTP400 ELSE candidate

----------------------------------------------------------------------------
(* database.py *)

NumFields == {"score", "label"}

IsNone(key, value) == IF key \in NumFields THEN value = NULL ELSE value = None

IsFalsy(key, value) ==
    IF key \in NumFields THEN value \in {NULL, 0} ELSE value \in {None, <<>>}

add_inventory_item(db, row) ==
    [i \in DOMAIN db \cup {row.id} |-> IF i = row.id THEN row ELSE db[i]]

update_inventory_item_truthy(db, item_id, kwargs) ==
    LET set == {k \in DOMAIN kwargs : ~IsFalsy(k, kwargs[k])}
    IN  IF set = {} \/ item_id \notin DOMAIN db THEN db
        ELSE [db EXCEPT ![item_id] =
                [f \in DOMAIN @ |-> IF f \in set THEN kwargs[f] ELSE @[f]]]

update_inventory_item_touch(db, item_id, kwargs) ==
    LET set == {k \in DOMAIN kwargs : ~IsNone(k, kwargs[k])}
    IN  IF set = {} \/ item_id \notin DOMAIN db THEN db
        ELSE [db EXCEPT ![item_id] =
                [f \in DOMAIN @ |-> IF f \in set THEN kwargs[f]
                                    ELSE IF f = "created_at" THEN @[f] + 1
                                    ELSE @[f]]]

\* UPDATE ... SET <the non-None kwargs> WHERE id = ?  (no row: nothing happens)
update_inventory_item(db, item_id, kwargs) ==
    LET set == {k \in DOMAIN kwargs : ~IsNone(k, kwargs[k])}
    IN  IF set = {} \/ item_id \notin DOMAIN db THEN db
        ELSE [db EXCEPT ![item_id] =
                [f \in DOMAIN @ |-> IF f \in set THEN kwargs[f] ELSE @[f]]]

delete_inventory_item(db, item_id) ==
    [i \in DOMAIN db \ {item_id} |-> db[i]]

\* SELECT * ... WHERE id = ?: the row, or None when there is none.
get_inventory_item_by_id(db, item_id) ==
    IF item_id \in DOMAIN db THEN db[item_id] ELSE None

\* SELECT * ... ORDER BY created_at DESC
RECURSIVE get_all_inventory_items(_)
get_all_inventory_items(db) ==
    IF DOMAIN db = {} THEN <<>>
    ELSE LET newest == CHOOSE i \in DOMAIN db :
                           \A j \in DOMAIN db : db[j].created_at <= db[i].created_at
         IN  <<db[newest]>> \o get_all_inventory_items(delete_inventory_item(db, newest))

----------------------------------------------------------------------------
(* Image payloads and files *)

PNG_B64 == <<"iVBORw0KGgo=">>      \* base64 of the bytes of a PNG image
TXT_B64 == <<"aGVsbG8=">>          \* base64 of bytes that are no image

BinasciiError == "binascii.Error"

\* base64.b64decode(raw, validate=True): any character outside the alphabet
\* (white space included) raises.
b64decode(raw) ==
    CASE raw = PNG_B64 -> "png"
      [] raw = TXT_B64 -> "txt"
      [] raw = <<>>    -> "empty"
      [] OTHER         -> BinasciiError

\* Image.open(...).convert("RGB") succeeds on image bytes only.
ImageOpens(bytes) == bytes = "png"

write_file(dir, item_id, bytes) ==
    [i \in DOMAIN dir \cup {item_id} |-> IF i = item_id THEN bytes ELSE dir[i]]

----------------------------------------------------------------------------
(* predict and log_prediction *)

\* INSERT INTO predictions_log (score, label): log_ok tells whether the
\* connection, the insert and the commit go through; when they do not, the
\* exception leaves log_prediction.
log_prediction(log, score, label, log_ok) ==
    IF log_ok THEN [log |-> Append(log, [score |-> score, label |-> label]),
                    raised |-> FALSE]
    ELSE [log |-> log, raised |-> TRUE]

\* The handler up to its response: the three checks on the payload, the
\* model output, the awaited log_prediction call (not guarded by any try).
predict(log, encoded, out, log_ok) ==
    IF strip(encoded) = <<>> THEN [log |-> log, err |-> "400", body |-> <<>>]
    ELSE IF b64decode(encoded) = BinasciiError
         THEN [log |-> log, err |-> "400", body |-> <<>>]
    ELSE IF ~ImageOpens(b64decode(encoded))
         THEN [log |-> log, err |-> "400", body |-> <<>>]
    ELSE LET logged == log_prediction(log, out.score, out.label, log_ok)
         IN  IF logged.raised THEN [log |-> logged.log, err |-> "500", body |-> <<>>]
             ELSE [log |-> logged.log, err |-> "ok",
                   body |-> [score |-> out.score, label |-> out.label]]

----------------------------------------------------------------------------
(* upload_inventory *)

NewRow(item_id, entry, status, now) ==
    [id         |-> item_id,
     name       |-> Or(entry.name, <<"Item">>),
     status     |-> status,
     owner      |-> Get(entry.owner, <<>>),
     created_at |-> now,
     image_path |-> item_id,
     notes      |-> Get(entry.notes, <<>>),
     score      |-> NULL,
     label      |-> NULL]

\* One iteration of the loop over payload.items; st carries the table, the
\* images directory, the uuid/clock counter and the raised error (if any).
upload_entry_skip_invalid(st, entry) ==
    LET raw   == Get(entry.image_base64, <<>>)
        bytes == b64decode(raw)
        item_id == st.nextId
        status == ensure_valid_status(entry.status)
    IN  IF strip(raw) = <<>> \/ bytes = BinasciiError \/ status = HTTP400 THEN st
        ELSE [st EXCEPT !.files = write_file(st.files, item_id, bytes),
                        !.nextId = item_id + 1,
                        !.db = add_inventory_item(st.db,
                                   NewRow(item_id, entry, status, st.nextId))]

upload_entry_fixed_id(st, entry) ==
    LET raw   == Get(entry.image_base64, <<>>)
        bytes == b64decode(raw)
        item_id == 1
        status == ensure_valid_status(entry.status)
    IN  IF strip(raw) = <<>> THEN [st EXCEPT !.err = "400"]
        ELSE IF bytes = BinasciiError THEN [st EXCEPT !.err = "400"]
        ELSE IF status = HTTP400
             THEN [st EXCEPT !.files = write_file(st.files, item_id, bytes),
                             !.nextId = st.nextId + 1,
                             !.err = "400"]
        ELSE [st EXCEPT !.files = write_file(st.files, item_id, bytes),
                        !.nextId = st.nextId + 1,
                        !.db = add_inventory_item(st.db,
                                   NewRow(item_id, entry, status, st.nextId))]

upload_entry(st, entry) ==
    LET raw   == Get(entry.image_base64, <<>>)
        bytes == b64decode(raw)
        item_id == st.nextId
        status == ensure_valid_status(entry.status)
    IN  IF strip(raw) = <<>> THEN [st EXCEPT !.err = "400"]
        ELSE IF bytes = BinasciiError THEN [st EXCEPT !.err = "400"]
        \* the file is written before the status is validated
        ELSE IF status = HTTP400
             THEN [st EXCEPT !.files = write_file(st.files, item_id, bytes),
                             !.nextId = item_id + 1,
                             !.err = "400"]
        ELSE [st EXCEPT !.files = write_file(st.files, item_id, bytes),
                        !.nextId = item_id + 1,
                        !.db = add_inventory_item(st.db,
                                   NewRow(item_id, entry, status, st.nextId))]

RECURSIVE upload_loop(_, _)
upload_loop(entries, st) ==
    IF entries = <<>> \/ st.err # "ok" THEN st
    ELSE upload_loop(Tail(entries), upload_entry(st, Head(entries)))

AllIdle == \A p \in DOMAIN reqs : reqs[p].pc = "idle"

Upload(entries) ==
    /\ AllIdle
    /\ \E r \in {upload_loop(entries,
                    [db |-> store, files |-> files, nextId |-> nextId, err |-> "ok"])} :
           /\ store' = r.db
           /\ files' = r.files
           /\ nextId' = r.nextId
           /\ last' = [op |-> "Upload", req |-> entries, err |-> r.err,
                       body |-> IF r.err = "ok" THEN get_all_inventory_items(r.db)
                                ELSE <<>>]
    /\ UNCHANGED <<reqs, base, predictions_log>>

----------------------------------------------------------------------------
(* classify_inventory *)

MISSING_IMAGE == <<"Missing image: <image_file>">>
CLASSIFICATION_ERROR == <<"Classification error: <exc>">>

\* label = argmax of the two probabilities (index 0 on a tie), score = probs[1].
ModelOutput(score) == [score |-> score, label |-> IF score > 50 THEN 1 ELSE 0]

classify_kwargs_keep_status(item, dir, out) ==
    IF item.id \notin DOMAIN dir THEN [notes |-> MISSING_IMAGE]
    ELSE IF ~ImageOpens(dir[item.id]) THEN [notes |-> CLASSIFICATION_ERROR]
    ELSE [score |-> out.score, label |-> out.label,
          status |-> IF item.status # <<"awaiting_review">> THEN None
                     ELSE IF out.label = 1 THEN <<"needs_attention">>
                     ELSE <<"cleared">>]

\* The keyword arguments of the one db_update_item call made for an item.
classify_kwargs(item, dir, out) ==
    IF item.id \notin DOMAIN dir THEN [notes |-> MISSING_IMAGE]
    ELSE IF ~ImageOpens(dir[item.id]) THEN [notes |-> CLASSIFICATION_ERROR]
    ELSE [score |-> out.score, label |-> out.label,
          status |-> IF out.label = 1 THEN <<"needs_attention">> ELSE <<"cleared">>]

RECURSIVE classify_loop_abort(_, _, _, _)
classify_loop_abort(items, db, dir, outs) ==
    IF items = <<>> THEN db
    ELSE LET item == Head(items)
             db2  == update_inventory_item(db, item.id,
                         classify_kwargs(item, dir, outs[item.id]))
         IN  IF item.id \notin DOMAIN dir \/ ~ImageOpens(dir[item.id]) THEN db2
             ELSE classify_loop_abort(Tail(items), db2, dir, outs)

\* The loop over the listing: one db_update_item call per item, whichever
\* branch the item takes.
RECURSIVE classify_loop(_, _, _, _)
classify_loop(items, db, dir, outs) ==
    IF items = <<>> THEN db
    ELSE LET item == Head(items)
         IN  classify_loop(Tail(items),
                 update_inventory_item(db, item.id,
                     classify_kwargs(item, dir, outs[item.id])),
                 dir, outs)

Classify(outs) ==
    /\ AllIdle
    /\ store # <<>>
    /\ \E db \in {classify_loop(get_all_inventory_items(store), store, files, outs)} :
           /\ store' = db
           /\ last' = [op |-> "Classify",
                       req |-> [i \in DOMAIN store |-> store[i].status],
                       err |-> "ok", body |-> get_all_inventory_items(db)]
    /\ UNCHANGED <<files, nextId, reqs, base, predictions_log>>

Predict(encoded, out, log_ok) ==
    /\ AllIdle
    /\ \E r \in {predict(predictions_log, encoded, out, log_ok)} :
           /\ Len(r.log) <= MaxLog
           /\ predictions_log' = r.log
           /\ last' = [op |-> "Predict",
                       req |-> [image_base64 |-> encoded, out |-> out,
                                log_ok |-> log_ok],
                       err |-> r.err, body |-> r.body]
    /\ UNCHANGED <<store, files, nextId, reqs, base>>

----------------------------------------------------------------------------
(* update_inventory_item_endpoint and batch_update_inventory *)

UpdateKeys == {"name", "status", "owner", "notes"}

build_updates_blank_name(item, payload) ==
    [k \in {f \in UpdateKeys : payload[f] # None} |->
        CASE k = "name"   -> strip(payload.name)
          [] k = "status" -> ensure_valid_status(strip(payload.status))
          [] k = "owner"  -> strip(payload.owner)
          [] k = "notes"  ->
                IF payload.append_notes /\ Or(item.notes, <<>>) # <<>>
                THEN item.notes \o <<"\n">> \o strip(payload.notes)
                ELSE strip(payload.notes)]

build_updates_skip_blank_status(item, payload) ==
    [k \in {f \in UpdateKeys : payload[f] # None
                               /\ (f = "status" => strip(payload[f]) # <<>>)} |->
        CASE k = "name"   -> Or(strip(payload.name), item.name)
          [] k = "status" -> ensure_valid_status(strip(payload.status))
          [] k = "owner"  -> strip(payload.owner)
          [] k = "notes"  ->
                IF payload.append_notes /\ Or(item.notes, <<>>) # <<>>
                THEN item.notes \o <<"\n">> \o strip(payload.notes)
                ELSE strip(payload.notes)]

\* The `updates` dict both handlers build from the row they read.
build_updates(item, payload) ==
    [k \in {f \in UpdateKeys : payload[f] # None} |->
        CASE k = "name"   -> Or(strip(payload.name), item.name)
          [] k = "status" -> ensure_valid_status(strip(payload.status))
          [] k = "owner"  -> strip(payload.owner)
          [] k = "notes"  ->
                IF payload.append_notes /\ Or(item.notes, <<>>) # <<>>
                THEN item.notes \o <<"\n">> \o strip(payload.notes)
                ELSE strip(payload.notes)]

\* ensure_valid_status raised while the dict was being built.
Raises(updates) == "status" \in DOMAIN updates /\ updates["status"] = HTTP400

patch_handler(db, item_id, payload) ==
    IF item_id \notin DOMAIN db THEN [db |-> db, err |-> "404", body |-> <<>>]
    ELSE LET updates == build_updates(db[item_id], payload)
         IN  IF Raises(updates) THEN [db |-> db, err |-> "400", body |-> <<>>]
             ELSE LET db2 == IF DOMAIN updates # {}
                             THEN update_inventory_item(db, item_id, updates)
                             ELSE db
                  IN  [db |-> db2, err |-> "ok", body |-> db2[item_id]]

NotesFit(db) == \A i \in DOMAIN db : Len(db[i].notes) <= MaxNotesLen

PartialUpdate(item_id, payload) ==
    /\ AllIdle
    /\ \E r \in {patch_handler(store, item_id, payload)} :
           /\ NotesFit(r.db)
           /\ store' = r.db
           /\ last' = [op |-> "PartialUpdate",
                       req |-> [item_id |-> item_id, payload |-> payload],
                       err |-> r.err, body |-> r.body]
    /\ UNCHANGED <<files, nextId, reqs, base, predictions_log>>

\* The loop over set(payload.item_ids); st carries the table, updated_count
\* and the raised error.  The iteration order of a set is arbitrary; the
\* outcome does not depend on it, every item getting the same payload.
RECURSIVE batch_loop(_, _, _)
batch_loop(targets, payload, st) ==
    IF targets = {} \/ st.err # "ok" THEN st
    ELSE LET item_id == CHOOSE i \in targets : TRUE
             rest == targets \ {item_id}
         IN  IF item_id \notin DOMAIN st.db THEN batch_loop(rest, payload, st)
             ELSE LET updates == build_updates(st.db[item_id], payload)
                  IN  IF Raises(updates) THEN [st EXCEPT !.err = "400"]
                      ELSE IF DOMAIN updates # {}
                           THEN batch_loop(rest, payload,
                                    [st EXCEPT !.db = update_inventory_item(
                                                          st.db, item_id, updates),
                                               !.updated_count = @ + 1])
                           ELSE batch_loop(rest, payload, st)

batch_handler(db, item_ids, payload) ==
    LET st == batch_loop(item_ids, payload,
                         [db |-> db, updated_count |-> 0, err |-> "ok"])
    IN  IF st.err # "ok" THEN [db |-> st.db, err |-> st.err, body |-> <<>>]
        ELSE IF st.updated_count = 0 THEN [db |-> st.db, err |-> "404", body |-> <<>>]
        ELSE [db |-> st.db, err |-> "ok", body |-> get_all_inventory_items(st.db)]

BatchUpdate(item_ids, payload) ==
    /\ AllIdle
    /\ item_ids # {}
    /\ \E r \in {batch_handler(store, item_ids, payload)} :
           /\ NotesFit(r.db)
           /\ store' = r.db
           /\ last' = [op |-> "BatchUpdate",
                       req |-> [item_ids |-> item_ids, payload |-> payload],
                       err |-> r.err, body |-> r.body]
    /\ UNCHANGED <<files, nextId, reqs, base, predictions_log>>

----------------------------------------------------------------------------
(* Store delete and the environment *)

Delete(item_id) ==
    /\ AllIdle
    /\ store' = delete_inventory_item(store, item_id)
    /\ last' = [op |-> "Delete", req |-> item_id, err |-> "ok", body |-> <<>>]
    /\ UNCHANGED <<files, nextId, reqs, base, predictions_log>>

\* A caller of the store reads one row; the function raises nothing.
StoreGet(item_id) ==
    /\ AllIdle
    /\ last' = [op |-> "StoreGet", req |-> item_id, err |-> "ok",
                body |-> get_inventory_item_by_id(store, item_id)]
    /\ UNCHANGED <<store, files, nextId, reqs, base, predictions_log>>

\* A caller of the store updates one row; the function raises nothing and
\* returns None, whether or not a row matched.
StoreUpdate(item_id, kwargs) ==
    /\ AllIdle
    /\ store' = update_inventory_item(store, item_id, kwargs)
    /\ last' = [op |-> "StoreUpdate", req |-> item_id, err |-> "ok", body |-> None]
    /\ UNCHANGED <<files, nextId, reqs, base, predictions_log>>

\* An image file is removed from the images directory behind the server's back.
RemoveImage(item_id) ==
    /\ AllIdle
    /\ item_id \in DOMAIN files
    /\ files' = [i \in DOMAIN files \ {item_id} |-> files[i]]
    /\ last' = [op |-> "RemoveImage", req |-> item_id, err |-> "ok", body |-> <<>>]
    /\ UNCHANGED <<store, nextId, reqs, base, predictions_log>>

----------------------------------------------------------------------------
(* Two PATCH requests in flight: the handler yields at every await *)

Procs == {"r1", "r2"}

Idle == [pc |-> "idle"]

Arrive(p, item_id, payload) ==
    /\ reqs[p].pc = "idle"
    /\ store # <<>>
    /\ reqs' = [reqs EXCEPT ![p] = [pc |-> "get", item_id |-> item_id,
                                    payload |-> payload]]
    /\ base' = IF AllIdle THEN store ELSE base
    /\ UNCHANGED <<store, files, nextId, last, predictions_log>>

\* item = await get_inventory_item_by_id(item_id), then the updates dict
PatchGet(p) ==
    /\ reqs[p].pc = "get"
    /\ LET r == reqs[p]
       IN  IF r.item_id \notin DOMAIN store
           THEN reqs' = [reqs EXCEPT ![p] = [r EXCEPT !.pc = "done"] @@ [err |-> "404"]]
           ELSE LET updates == build_updates(store[r.item_id], r.payload)
                IN  IF Raises(updates)
                    THEN reqs' = [reqs EXCEPT ![p] =
                                    [r EXCEPT !.pc = "done"] @@ [err |-> "400"]]
                    ELSE reqs' = [reqs EXCEPT ![p] =
                                    [r EXCEPT !.pc = IF DOMAIN updates # {}
                                                     THEN "update" ELSE "return"]
                                    @@ [updates |-> updates]]
    /\ UNCHANGED <<store, files, nextId, last, base, predictions_log>>

\* await db_update_item(item_id, **updates)
PatchUpdate(p) ==
    /\ reqs[p].pc = "update"
    /\ store' = update_inventory_item(store, reqs[p].item_id, reqs[p].updates)
    /\ reqs' = [reqs EXCEPT ![p].pc = "return"]
    /\ UNCHANGED <<files, nextId, last, base, predictions_log>>

\* return await get_inventory_item_by_id(item_id)
PatchReturn(p) ==
    /\ reqs[p].pc = "return"
    /\ reqs' = [reqs EXCEPT ![p] = [@ EXCEPT !.pc = "done"] @@ [err |-> "ok"]]
    /\ UNCHANGED <<store, files, nextId, last, base, predictions_log>>

----------------------------------------------------------------------------
(* Inputs *)

Entry(image_base64, name, status, owner, notes) ==
    [image_base64 |-> image_base64, name |-> name, status |-> status,
     owner |-> owner, notes |-> notes]

Payload(name, status, notes, owner, append_notes) ==
    [name |-> name, status |-> status, notes |-> notes, owner |-> owner,
     append_notes |-> append_notes]

\* Ids a request may name: every id that can exist and one that never does.
Ids == 1..(MaxIds + 1)

RECURSIVE SeqsUpTo(_, _)
SeqsUpTo(S, n) ==
    IF n = 0 THEN {<<>>}
    ELSE LET shorter == SeqsUpTo(S, n - 1)
         IN  shorter \cup {Append(q, x) : q \in shorter, x \in S}

UploadEntries ==
    {Entry(PNG_B64, None, None, None, None),
     Entry(PNG_B64, <<"a">>, <<" ", "cleared", " ">>, None, None),
     Entry(PNG_B64, None, <<"bogus">>, None, None),
     Entry(TXT_B64, <<>>, <<" ">>, None, None),
     Entry(<<" ">>, None, None, None, None),
     Entry(<<"!!">>, None, None, None, None)}

UploadBatches == SeqsUpTo(UploadEntries, MaxBatch) \ {<<>>}

LifecycleEntries ==
    {Entry(PNG_B64, None, None, None, None),
     Entry(PNG_B64, None, <<" ", "cleared", " ">>, None, None),
     Entry(PNG_B64, None, <<"bogus">>, None, None),
     Entry(TXT_B64, None, None, None, None)}

ScoreSamples == {50, 90}

Payloads ==
    {Payload(None, None, None, None, FALSE),
     Payload(None, <<"in_review">>, None, None, FALSE),
     Payload(None, <<" ", "cleared", " ">>, None, None, FALSE),
     Payload(None, <<" ">>, None, None, FALSE),
     Payload(None, <<"bogus">>, None, None, FALSE)}

Init ==
    /\ store = <<>>
    /\ files = <<>>
    /\ nextId = 1
    /\ last = [op |-> "none", req |-> <<>>, err |-> "ok", body |-> <<>>]
    /\ reqs = [p \in Procs |-> Idle]
    /\ base = <<>>
    /\ predictions_log = <<>>

----------------------------------------------------------------------------
(* build_ai_insight and ai_insights *)

\* build_ai_insight(item) on an InventoryItem.  The thresholds 0.85, 0.65,
\* 0.45 and 0.6 are 85, 65, 45 and 60 hundredths; round(score, 3) leaves a
\* score of two decimals as it is.
build_ai_insight(item) ==
    LET has_prediction == item.score # NULL
        score  == IF item.score # NULL THEN item.score ELSE 0
        branch == IF ~has_prediction THEN "none"
                  ELSE IF score >= 85 THEN "critical"
                  ELSE IF score >= 65 THEN "high"
                  ELSE IF score >= 45 THEN "elevated"
                  ELSE "low"
        default_hint ==
            Or(item.owner, IF score >= 60 THEN <<"Maintenance">> ELSE <<"Quality">>)
    IN  [item_id |-> item.id,
         name |-> item.name,
         current_status |-> item.status,
         recommended_status |->
            CASE branch = "none"     -> <<"awaiting_review">>
              [] branch = "critical" -> <<"needs_attention">>
              [] branch = "high"     -> <<"needs_attention">>
              [] branch = "elevated" -> <<"in_review">>
              [] branch = "low"      -> <<"cleared">>,
         priority |->
            CASE branch = "none"     -> "low"
              [] branch = "critical" -> "critical"
              [] branch = "high"     -> "high"
              [] branch = "elevated" -> "elevated"
              [] branch = "low"      -> "low",
         owner_hint |->
            CASE branch = "none"     -> default_hint
              [] branch = "critical" -> <<"Reliability">>
              [] branch = "high"     -> <<"Maintenance">>
              [] branch = "elevated" -> default_hint
              [] branch = "low"      -> Or(item.owner, <<"Quality">>),
         confidence |-> IF item.score # NULL THEN score ELSE NULL,
         summary |->
            CASE branch = "none"     -> "No prediction data available"
              [] branch = "critical" -> "Model flags this component as highly likely defective"
              [] branch = "high"     -> "Elevated defect probability"
              [] branch = "elevated" -> "Borderline reading"
              [] branch = "low"      -> "Low likelihood of defect",
         suggested_note |->
            CASE branch = "none"     -> "Item has not been classified yet"
              [] branch = "critical" -> "Hold shipment"
              [] branch = "high"     -> "Route to maintenance for rework"
              [] branch = "elevated" -> "Add to the monitoring queue"
              [] branch = "low"      -> "Log QA spot check"]

row_insight_open_bounds(item) ==
    LET has_prediction == item.score # NULL
        score  == IF item.score \in {NULL, 0} THEN 0 ELSE item.score
        branch == IF ~has_prediction THEN "none"
                  ELSE IF score > 85 THEN "critical"
                  ELSE IF score > 65 THEN "high"
                  ELSE IF score > 45 THEN "elevated"
                  ELSE "low"
        default_hint ==
            Or(item.owner, IF score >= 60 THEN <<"Maintenance">> ELSE <<"Quality">>)
    IN  [item_id |-> item.id,
         name |-> item.name,
         current_status |-> item.status,
         recommended_status |->
            CASE branch = "none"     -> <<"awaiting_review">>
              [] branch = "critical" -> <<"needs_attention">>
              [] branch = "high"     -> <<"needs_attention">>
              [] branch = "elevated" -> <<"in_review">>
              [] branch = "low"      -> <<"cleared">>,
         priority |->
            CASE branch = "none"     -> "low"
              [] branch = "critical" -> "critical"
              [] branch = "high"     -> "high"
              [] branch = "elevated" -> "elevated"
              [] branch = "low"      -> "low",
         owner_hint |->
            CASE branch = "none"     -> default_hint
              [] branch = "critical" -> <<"Reliability">>
              [] branch = "high"     -> <<"Maintenance">>
              [] branch = "elevated" -> default_hint
              [] branch = "low"      -> Or(item.owner, <<"Quality">>),
         confidence |-> IF item.score # NULL THEN score ELSE NULL,
         summary |->
            CASE branch = "none"     -> "No prediction data available"
              [] branch = "critical" -> "Model flags this component as highly likely defective"
              [] branch = "high"     -> "Elevated defect probability"
              [] branch = "elevated" -> "Borderline reading"
              [] branch = "low"      -> "Low likelihood of defect",
         suggested_note |->
            CASE branch = "none"     -> "Item has not been classified yet"
              [] branch = "critical" -> "Hold shipment"
              [] branch = "high"     -> "Route to maintenance for rework"
              [] branch = "elevated" -> "Add to the monitoring queue"
              [] branch = "low"      -> "Log QA spot check"]

\* The insight the ai_insights handler builds in line from a table row:
\* score = item.get("score") or 0.0, has_prediction = score is not None.
row_insight(item) ==
    LET has_prediction == item.score # NULL
        score  == IF item.score \in {NULL, 0} THEN 0 ELSE item.score
        branch == IF ~has_prediction THEN "none"
                  ELSE IF score >= 85 THEN "critical"
                  ELSE IF score >= 65 THEN "high"
                  ELSE IF score >= 45 THEN "elevated"
                  ELSE "low"
        default_hint ==
            Or(item.owner, IF score >= 60 THEN <<"Maintenance">> ELSE <<"Quality">>)
    IN  [item_id |-> item.id,
         name |-> item.name,
         current_status |-> item.status,
         recommended_status |->
            CASE branch = "none"     -> <<"awaiting_review">>
              [] branch = "critical" -> <<"needs_attention">>
              [] branch = "high"     -> <<"needs_attention">>
              [] branch = "elevated" -> <<"in_review">>
              [] branch = "low"      -> <<"cleared">>,
         priority |->
            CASE branch = "none"     -> "low"
              [] branch = "critical" -> "critical"
              [] branch = "high"     -> "high"
              [] branch = "elevated" -> "elevated"
              [] branch = "low"      -> "low",
         owner_hint |->
            CASE branch = "none"     -> default_hint
              [] branch = "critical" -> <<"Reliability">>
              [] branch = "high"     -> <<"Maintenance">>
              [] branch = "elevated" -> default_hint
              [] branch = "low"      -> Or(item.owner, <<"Quality">>),
         confidence |-> IF item.score # NULL THEN score ELSE NULL,
         summary |->
            CASE branch = "none"     -> "No prediction data available"
              [] branch = "critical" -> "Model flags this component as highly likely defective"
              [] branch = "high"     -> "Elevated defect probability"
              [] branch = "elevated" -> "Borderline reading"
              [] branch = "low"      -> "Low likelihood of defect",
         suggested_note |->
            CASE branch = "none"     -> "Item has not been classified yet"
              [] branch = "critical" -> "Hold shipment"
              [] branch = "high"     -> "Route to maintenance for rework"
              [] branch = "elevated" -> "Add to the monitoring queue"
              [] branch = "low"      -> "Log QA spot check"]

\* The loop over targets, in the iteration order `order` of the set.
RECURSIVE insights_loop(_, _, _)
insights_loop(order, db, acc) ==
    IF order = <<>> THEN acc
    ELSE LET item_id == Head(order)
         IN  IF item_id \notin DOMAIN db
             THEN insights_loop(Tail(order), db,
                      [acc EXCEPT !.missing = Append(@, item_id)])
             ELSE insights_loop(Tail(order), db,
                      [acc EXCEPT !.insights = Append(@, row_insight(db[item_id]))])

ai_insights_drop_missing(db, order) ==
    [insights_loop(order, db, [insights |-> <<>>, missing |-> <<>>])
        EXCEPT !.missing = <<>>]

ai_insights(db, order) ==
    insights_loop(order, db, [insights |-> <<>>, missing |-> <<>>])

\* set(payload.item_ids)
Targets(item_ids) == {item_ids[k] : k \in DOMAIN item_ids}

\* The orders in which a set may be iterated.
Orderings(S) ==
    {q \in SeqsUpTo(S, Cardinality(S)) : Targets(q) = S /\ Len(q) = Cardinality(S)}

AiInsights(item_ids) ==
    /\ AllIdle
    /\ \E order \in Orderings(Targets(item_ids)) :
           last' = [op |-> "AiInsights", req |-> item_ids, err |-> "ok",
                    body |-> ai_insights(store, order)]
    /\ UNCHANGED <<store, files, nextId, reqs, base, predictions_log>>

\* item_ids has min_length 1.
InsightRequests == SeqsUpTo(Ids, MaxRequestIds) \ {<<>>}

----------------------------------------------------------------------------
(* Spec: the lifecycle of records, one request at a time *)

UploadOne ==
    \E entry \in LifecycleEntries : Upload(<<entry>>) /\ nextId' <= MaxIds + 1

ClassifyAll ==
    \E outs \in [DOMAIN store -> {ModelOutput(s) : s \in ScoreSamples}] :
        Classify(outs)

Next ==
    \/ UploadOne
    \/ ClassifyAll
    \/ \E item_id \in Ids, payload \in Payloads : PartialUpdate(item_id, payload)
    \/ \E item_ids \in SUBSET Ids, payload \in Payloads :
           BatchUpdate(item_ids, payload)
    \/ \E item_id \in Ids : Delete(item_id)
    \/ \E item_id \in Ids : RemoveImage(item_id)
    \/ \E item_id \in Ids : AiInsights(<<item_id>>)

Spec == Init /\ [][Next]_vars

----------------------------------------------------------------------------
(* SpecUpload: upload requests of several entries *)

UploadBatch ==
    \E entries \in UploadBatches : Upload(entries) /\ nextId' <= MaxUploadIds + 1

NextUpload ==
    \/ UploadBatch
    \/ \E item_id \in 1..MaxUploadIds : Delete(item_id)

SpecUpload == Init /\ [][NextUpload]_vars

----------------------------------------------------------------------------
(* SpecMerge: the field merge of PATCH and batch-update *)

MergeEntries ==
    {Entry(PNG_B64, None, None, None, None),
     Entry(PNG_B64, None, None, <<"o">>, <<"n">>)}

MergePayloads ==
    {Payload(None, None, None, None, FALSE),
     Payload(<<" ">>, None, None, None, FALSE),
     Payload(<<" ", "b", " ">>, None, None, None, FALSE),
     Payload(None, None, None, <<" ">>, FALSE),
     Payload(None, None, None, <<"o", " ">>, FALSE),
     Payload(None, None, <<" ">>, None, TRUE),
     Payload(None, None, <<" ", "n">>, None, FALSE),
     Payload(None, None, <<" ", "n">>, None, TRUE),
     Payload(<<"b">>, <<"bogus">>, <<"n">>, <<" ">>, FALSE)}

UploadForMerge ==
    \E entry \in MergeEntries : Upload(<<entry>>) /\ nextId' <= MaxIds + 1

NextMerge ==
    \/ UploadForMerge
    \/ \E item_id \in Ids, payload \in MergePayloads :
           PartialUpdate(item_id, payload)
    \/ \E item_ids \in SUBSET Ids, payload \in MergePayloads :
           BatchUpdate(item_ids, payload)

SpecMerge == Init /\ [][NextMerge]_vars

----------------------------------------------------------------------------
(* SpecConc: two PATCH requests interleaved at their awaits *)

ConcEntries ==
    {Entry(PNG_B64, None, None, None, None),
     Entry(PNG_B64, <<"a">>, None, None, <<"n">>)}

ConcPayloads ==
    {Payload(None, None, <<"x">>, None, TRUE),
     Payload(None, None, <<"y">>, None, TRUE),
     Payload(<<"b">>, None, None, None, FALSE),
     Payload(<<" ">>, None, None, None, FALSE)}

UploadForConc ==
    \E entry \in ConcEntries : Upload(<<entry>>) /\ nextId' <= MaxIds + 1

NextConc ==
    \/ UploadForConc
    \/ \E p \in Procs, item_id \in Ids, payload \in ConcPayloads :
           Arrive(p, item_id, payload)
    \/ \E p \in Procs : PatchGet(p)
    \/ \E p \in Procs : PatchUpdate(p)
    \/ \E p \in Procs : PatchReturn(p)

SpecConc == Init /\ [][NextConc]_vars

----------------------------------------------------------------------------
(* SpecClassify: classification of several records, some without a usable
   image file *)

ClassifyEntries ==
    {Entry(PNG_B64, None, None, None, None),
     Entry(PNG_B64, None, None, None, <<"n">>),
     Entry(TXT_B64, None, None, None, None)}

UploadForClassify ==
    \E entry \in ClassifyEntries : Upload(<<entry>>) /\ nextId' <= MaxUploadIds + 1

NextClassify ==
    \/ UploadForClassify
    \/ ClassifyAll
    \/ \E item_id \in 1..MaxUploadIds : RemoveImage(item_id)

SpecClassify == Init /\ [][NextClassify]_vars

----------------------------------------------------------------------------
(* SpecInsight: insights over records classified at and around the
   thresholds *)

InsightEntries ==
    {Entry(PNG_B64, None, None, None, None),
     Entry(PNG_B64, None, None, <<"o">>, None)}

InsightScores == {0, 44, 45, 60, 64, 65, 84, 85}

UploadForInsight ==
    \E entry \in InsightEntries : Upload(<<entry>>) /\ nextId' <= MaxIds + 1

ClassifyForInsight ==
    \E outs \in [DOMAIN store -> {ModelOutput(s) : s \in InsightScores}] :
        Classify(outs)

NextInsight ==
    \/ UploadForInsight
    \/ ClassifyForInsight
    \/ \E item_ids \in InsightRequests : AiInsights(item_ids)

SpecInsight == Init /\ [][NextInsight]_vars

----------------------------------------------------------------------------
(* SpecStore: the store functions called with ids that exist and ids that
   do not *)

StoreIds == 1..(MaxUploadIds + 1)

StoreKwargs ==
    {[name |-> <<"b">>],
     [notes |-> None],
     [score |-> 90, label |-> 1, status |-> <<"needs_attention">>]}

UploadForStore ==
    \E entry \in InsightEntries : Upload(<<entry>>) /\ nextId' <= MaxUploadIds + 1

NextStore ==
    \/ UploadForStore
    \/ \E item_id \in StoreIds : StoreGet(item_id)
    \/ \E item_id \in StoreIds, kwargs \in StoreKwargs : StoreUpdate(item_id, kwargs)
    \/ \E item_id \in StoreIds : Delete(item_id)

SpecStore == Init /\ [][NextStore]_vars

----------------------------------------------------------------------------
(* SpecBoundary: the two operations that receive image bytes *)

PredictPayloads == {PNG_B64, TXT_B64, <<" ">>, <<>>, <<"!!">>}

PredictOne ==
    \E encoded \in PredictPayloads, s \in ScoreSamples, log_ok \in BOOLEAN :
        Predict(encoded, ModelOutput(s), log_ok)

UploadImage ==
    \E entry \in UploadEntries : Upload(<<entry>>) /\ nextId' <= MaxIds + 1

NextBoundary ==
    \/ PredictOne
    \/ UploadImage

SpecBoundary == Init /\ [][NextBoundary]_vars

----------------------------------------------------------------------------
(* Claims about the lifecycle (Spec) *)

\* C1: in every reachable state the status of every stored record is one of
\* awaiting_review, in_review, needs_attention, cleared.
StatusAlwaysAllowed ==
    \A i \in DOMAIN store : store[i].status \in ALLOWED_STATUSES

\* A request with a disallowed status has just failed on a record whose status
\* an earlier request had set.
StatusAlwaysAllowedWitness ==
    /\ last.op \in {"PartialUpdate", "BatchUpdate"}
    /\ last.err = "400"
    /\ \E i \in DOMAIN store : store[i].status = <<"in_review">>

\* C2: in every reachable state, score and label of every stored record are
\* both present or both absent.
ScoreLabelTogether ==
    \A i \in DOMAIN store : (store[i].score = NULL) <=> (store[i].label = NULL)

\* Classify has just stored label 0 (with the tie score) on a record.
ScoreLabelTogetherWitness ==
    /\ last.op = "Classify"
    /\ \E i \in DOMAIN store : store[i].label = 0 /\ store[i].score = 50

\* C3: a Classify run gives every record whose image file loads a score and a
\* label in {0, 1}, and sets its status to needs_attention if label = 1 and to
\* cleared otherwise, whatever the status was before.
ClassifyDerivesStatus ==
    [][last'.op = "Classify" =>
         \A i \in DOMAIN store :
            (i \in DOMAIN files /\ ImageOpens(files[i])) =>
               /\ store'[i].score \in 0..100
               /\ store'[i].label \in {0, 1}
               /\ store'[i].label = 1 => store'[i].status = <<"needs_attention">>
               /\ store'[i].label = 0 => store'[i].status = <<"cleared">>]_vars

\* Classify has just replaced a status that only an explicit update can set.
ClassifyDerivesStatusWitness ==
    /\ last.op = "Classify"
    /\ \E i \in DOMAIN store :
          /\ last.req[i] = <<"in_review">>
          /\ store[i].label = 0
          /\ store[i].status = <<"cleared">>

\* C5: an Upload, PartialUpdate or BatchUpdate that signals ValidationError
\* (HTTP 400) leaves the stored records and the stored image files exactly as
\* they were before the call.
ValidationErrorMutatesNothing ==
    [][(last'.op \in {"Upload", "PartialUpdate", "BatchUpdate"} /\ last'.err = "400")
          => (store' = store /\ files' = files)]_vars

\* C8 (as amended): PartialUpdate of an existing id with a status s stores the
\* trimmed s if it is in the fixed set, stores awaiting_review if s is empty
\* after trimming, and otherwise signals ValidationError and leaves the stored
\* record unchanged.
StatusUpdateTrimsDefaultsOrRejects ==
    [][(/\ last'.op = "PartialUpdate"
        /\ last'.req.item_id \in DOMAIN store
        /\ last'.req.payload.status # None) =>
          LET id == last'.req.item_id
              t  == strip(last'.req.payload.status)
          IN  IF t \in ALLOWED_STATUSES
              THEN last'.err = "ok" /\ store'[id].status = t
              ELSE IF t = <<>>
              THEN last'.err = "ok" /\ store'[id].status = <<"awaiting_review">>
              ELSE last'.err = "400" /\ store' = store]_vars

\* A blank status has just reset a classified record to awaiting_review.
StatusUpdateWitness ==
    /\ last.op = "PartialUpdate"
    /\ last.err = "ok"
    /\ last.req.payload.status = <<" ">>
    /\ last.req.item_id \in DOMAIN store
    /\ store[last.req.item_id].status = <<"awaiting_review">>
    /\ store[last.req.item_id].label = 1

\* C8 (as claimed): PartialUpdate of an existing id with a status s stores the
\* trimmed s if it is in the fixed set, and otherwise (a string empty after
\* trimming included) signals ValidationError and leaves the record unchanged.
StatusUpdateTrimsOrRejects ==
    [][(/\ last'.op = "PartialUpdate"
        /\ last'.req.item_id \in DOMAIN store
        /\ last'.req.payload.status # None) =>
          LET id == last'.req.item_id
              t  == strip(last'.req.payload.status)
          IN  IF t \in ALLOWED_STATUSES
              THEN last'.err = "ok" /\ store'[id].status = t
              ELSE last'.err = "400" /\ store' = store]_vars

\* C10: BatchUpdate signals NotFoundError exactly when none of the given ids
\* exists, and then mutates nothing; when some given id exists (and no
\* ValidationError is signalled) it succeeds and returns the full listing.
BatchNotFoundIffNoneExists ==
    [][last'.op = "BatchUpdate" =>
         LET existing == last'.req.item_ids \cap DOMAIN store
         IN  /\ (last'.err = "404") <=> (existing = {})
             /\ existing = {} => store' = store
             /\ (existing # {} /\ last'.err # "400") =>
                    /\ last'.err = "ok"
                    /\ last'.body = get_all_inventory_items(store')]_vars

\* C19: id, created_at and image_path of a record never change while the
\* record exists: no Classify, PartialUpdate, BatchUpdate or ai-insights
\* call, in any order, alters one of them.
IdentityFieldsImmutable ==
    [][\A i \in DOMAIN store \cap DOMAIN store' :
          /\ store'[i].id = store[i].id
          /\ store'[i].created_at = store[i].created_at
          /\ store'[i].image_path = store[i].image_path]_vars

\* A batch update has just changed the status of a record that Classify had
\* classified before; the record still has the identity it was created with.
IdentityFieldsImmutableWitness ==
    /\ last.op = "BatchUpdate"
    /\ last.err = "ok"
    /\ \E i \in last.req.item_ids \cap DOMAIN store :
          /\ store[i].label # NULL
          /\ store[i].status = <<"in_review">>
          /\ store[i].id = i
          /\ store[i].created_at = i
          /\ store[i].image_path = i

----------------------------------------------------------------------------
(* Claims about upload batches (SpecUpload) *)

\* What the claims call a valid entry: a payload that is not blank and decodes
\* as base64, and a status that is absent, blank or in the fixed set.
EntryValid(entry) ==
    /\ entry.image_base64 \in {PNG_B64, TXT_B64}
    /\ \/ entry.status = None
       \/ strip(entry.status) = <<>>
       \/ strip(entry.status) \in ALLOWED_STATUSES

\* Number of entries before the first invalid one.
RECURSIVE ValidPrefix(_)
ValidPrefix(entries) ==
    IF entries = <<>> \/ ~EntryValid(Head(entries)) THEN 0
    ELSE 1 + ValidPrefix(Tail(entries))

\* The new record created j-th by the step (creation order is created_at).
NthNew(new, db, j) ==
    CHOOSE i \in new :
        Cardinality({k \in new : db[k].created_at < db[i].created_at}) = j - 1

\* C6: Upload handles the entries in list order and raises at the first
\* invalid one: the entries before it are persisted, in order, and stay so
\* after the failure; no entry after it becomes a record; the records that
\* were stored before the call are kept.
UploadStopsAtFirstInvalid ==
    [][last'.op = "Upload" =>
         LET entries == last'.req
             n   == ValidPrefix(entries)
             new == DOMAIN store' \ DOMAIN store
         IN  /\ (last'.err = "400") <=> (n < Len(entries))
             /\ (last'.err = "ok") <=> (n = Len(entries))
             /\ Cardinality(new) = n
             /\ \A j \in 1..n :
                   store'[NthNew(new, store', j)].name
                       = Or(entries[j].name, <<"Item">>)
             /\ \A i \in DOMAIN store : i \in DOMAIN store' /\ store'[i] = store[i]]_vars

\* A batch whose second entry is invalid has just failed, and its first
\* entry (the only id ever drawn) is stored.
UploadStopsAtFirstInvalidWitness ==
    /\ last.op = "Upload"
    /\ last.err = "400"
    /\ Len(last.req) = 2
    /\ EntryValid(last.req[1])
    /\ nextId = 2
    /\ DOMAIN store = {1}

----------------------------------------------------------------------------
(* Claims about the field merge (SpecMerge) *)

RequestTargets ==
    IF last.op = "PartialUpdate" THEN {last.req.item_id}
    ELSE IF last.op = "BatchUpdate" THEN last.req.item_ids
    ELSE {}

MergedAs(old, new, payload, incoming) ==
    /\ new.name = IF payload.name = None \/ strip(payload.name) = <<>>
                  THEN old.name ELSE strip(payload.name)
    /\ new.owner = IF payload.owner = None THEN old.owner ELSE strip(payload.owner)
    /\ new.notes = IF payload.notes = None THEN old.notes
                   ELSE IF payload.append_notes /\ old.notes # <<>>
                        THEN old.notes \o <<"\n">> \o incoming
                        ELSE incoming
    /\ payload.status = None => new.status = old.status
    /\ \A f \in {"id", "created_at", "image_path", "score", "label"} : new[f] = old[f]

\* C9 (as amended): PartialUpdate and BatchUpdate merge the fields of every
\* existing target by one rule: an absent field keeps the stored value; a
\* supplied name is trimmed and stored unless empty after trimming, when the
\* prior name is kept; a supplied owner is trimmed and stored even when empty;
\* supplied notes are trimmed and replace the stored notes, except that with
\* the append flag and non-empty stored notes the result is the stored notes,
\* a newline, then the trimmed incoming notes.
FieldMergeRuleTrimmedNotes ==
    [][last'.op \in {"PartialUpdate", "BatchUpdate"} =>
         \A i \in RequestTargets' \cap DOMAIN store :
            IF last'.err = "400" THEN store'[i] = store[i]
            ELSE MergedAs(store[i], store'[i], last'.req.payload,
                          strip(last'.req.payload.notes))]_vars

\* A batch update has just appended notes that were sent with leading blanks.
FieldMergeRuleWitness ==
    /\ last.op = "BatchUpdate"
    /\ last.err = "ok"
    /\ last.req.payload.append_notes
    /\ last.req.payload.notes = <<" ", "n">>
    /\ \E i \in last.req.item_ids \cap DOMAIN store :
          store[i].notes = <<"n", "\n", "n">>

\* C9 (as claimed): the same rule with the supplied notes stored as supplied.
FieldMergeRule ==
    [][last'.op \in {"PartialUpdate", "BatchUpdate"} =>
         \A i \in RequestTargets' \cap DOMAIN store :
            IF last'.err = "400" THEN store'[i] = store[i]
            ELSE MergedAs(store[i], store'[i], last'.req.payload,
                          last'.req.payload.notes)]_vars

----------------------------------------------------------------------------
(* Claims about concurrent updates (SpecConc) *)

Done(p) == reqs[p].pc = "done"

\* The table after the requests of procs ran one after the other on db.
RECURSIVE Serial(_, _)
Serial(db, procs) ==
    IF procs = <<>> THEN db
    ELSE Serial(patch_handler(db, reqs[Head(procs)].item_id,
                              reqs[Head(procs)].payload).db,
                Tail(procs))

\* C4: when two PATCH requests have both completed, the table equals the
\* result of running the two requests in some serial order from the table
\* they started on.
UpdatesSerializable ==
    (Done("r1") /\ Done("r2")) =>
        store \in {Serial(base, <<"r1", "r2">>), Serial(base, <<"r2", "r1">>)}

----------------------------------------------------------------------------
(* Claims about classification failures (SpecClassify) *)

\* t occurs in s as a contiguous run of tokens.
Contains(s, t) ==
    \E k \in 0..(Len(s) - Len(t)) : SubSeq(s, k + 1, k + Len(t)) = t

\* C11: a failure on one record never aborts Classify: a record whose image
\* file is missing keeps its score and label and has the "Missing image"
\* marker in its notes; a record whose classification raises has the
\* exception recorded in its notes; every other record is classified (label
\* in {0, 1}, status derived from it), and the request succeeds with the
\* listing.
ClassifySurvivesItemFailure ==
    [][last'.op = "Classify" =>
         /\ last'.err = "ok"
         /\ last'.body = get_all_inventory_items(store')
         /\ DOMAIN store' = DOMAIN store
         /\ \A i \in DOMAIN store :
               IF i \notin DOMAIN files
               THEN /\ store'[i].score = store[i].score
                    /\ store'[i].label = store[i].label
                    /\ Contains(store'[i].notes, MISSING_IMAGE)
               ELSE IF ~ImageOpens(files[i])
               THEN Contains(store'[i].notes, CLASSIFICATION_ERROR)
               ELSE /\ store'[i].score # NULL
                    /\ store'[i].label \in {0, 1}
                    /\ store'[i].status = IF store'[i].label = 1
                                          THEN <<"needs_attention">>
                                          ELSE <<"cleared">>]_vars

\* Classify has just met a missing image on the newest record (the first of
\* the listing) and then classified an older record for the first time.
ClassifySurvivesItemFailureWitness ==
    /\ last.op = "Classify"
    /\ last.err = "ok"
    /\ \E i, k \in DOMAIN store :
          /\ store[k].created_at < store[i].created_at
          /\ i \notin DOMAIN files
          /\ store[i].notes = MISSING_IMAGE
          /\ store[i].score = NULL
          /\ last.req[k] = <<"awaiting_review">>
          /\ store[k].label \in {0, 1}

\* C12: when Classify finds a record's image missing, the notes the record
\* held before the call are still contained in its notes afterwards (the
\* diagnostic note is appended).
MissingImageNoteAppended ==
    [][last'.op = "Classify" =>
         \A i \in DOMAIN store :
            i \notin DOMAIN files => Contains(store'[i].notes, store[i].notes)]_vars

----------------------------------------------------------------------------
(* Claims about insights (SpecInsight) *)

\* C13: every insight the ai-insights endpoint returns maps the record's
\* score to (recommended_status, priority) by closed lower bounds: absent
\* gives (awaiting_review, low); >= 0.85 (needs_attention, critical); 0.65 up
\* to 0.85 (needs_attention, high); 0.45 up to 0.65 (in_review, elevated);
\* below 0.45, a present 0 included, (cleared, low); and build_ai_insight
\* gives the same insight for the record.
InsightBandsClosed ==
    last.op = "AiInsights" =>
        \A k \in DOMAIN last.body.insights :
            LET ins == last.body.insights[k]
                row == store[ins.item_id]
                s   == row.score
            IN  /\ <<ins.recommended_status, ins.priority>> =
                      IF s = NULL THEN <<<<"awaiting_review">>, "low">>
                      ELSE IF s >= 85 THEN <<<<"needs_attention">>, "critical">>
                      ELSE IF s >= 65 THEN <<<<"needs_attention">>, "high">>
                      ELSE IF s >= 45 THEN <<<<"in_review">>, "elevated">>
                      ELSE <<<<"cleared">>, "low">>
                /\ build_ai_insight(row) = ins

\* An insight has just been returned for a record whose score is exactly
\* 0.85.
InsightBandsClosedWitness ==
    /\ last.op = "AiInsights"
    /\ \E k \in DOMAIN last.body.insights :
          /\ last.body.insights[k].confidence = 85
          /\ last.body.insights[k].priority = "critical"

\* C14: the owner_hint of an insight is the band value only when the
\* record's owner is unset (Quality for an absent score, Reliability from
\* 0.85, Maintenance from 0.65 up to 0.85, Quality below 0.45, nothing set by
\* the band from 0.45 up to 0.65); when the owner is set, no band replaces
\* the hint, which is the owner.
OwnerHintOnlyWhenUnowned ==
    last.op = "AiInsights" =>
        \A k \in DOMAIN last.body.insights :
            LET ins == last.body.insights[k]
                row == store[ins.item_id]
                s   == row.score
            IN  IF row.owner = <<>>
                THEN IF s = NULL THEN ins.owner_hint = <<"Quality">>
                     ELSE IF s >= 85 THEN ins.owner_hint = <<"Reliability">>
                     ELSE IF s >= 65 THEN ins.owner_hint = <<"Maintenance">>
                     ELSE IF s >= 45 THEN TRUE
                     ELSE ins.owner_hint = <<"Quality">>
                ELSE ins.owner_hint = row.owner

\* C15: an ai-insights request changes no stored state and signals no error;
\* it returns exactly one insight per distinct requested id that exists and
\* lists exactly the distinct requested ids that do not exist as missing.
InsightsReadOnlyAndPartition ==
    [][last'.op = "AiInsights" =>
         LET requested == Targets(last'.req)
             insights  == last'.body.insights
             missing   == last'.body.missing
         IN  /\ store' = store
             /\ files' = files
             /\ predictions_log' = predictions_log
             /\ last'.err = "ok"
             /\ Len(insights) = Cardinality(requested \cap DOMAIN store)
             /\ {insights[k].item_id : k \in DOMAIN insights}
                    = requested \cap DOMAIN store
             /\ Len(missing) = Cardinality(requested \ DOMAIN store)
             /\ Targets(missing) = requested \ DOMAIN store]_vars

\* A request naming a stored id and an id that does not exist has just
\* been answered with one insight and one missing id.
InsightsReadOnlyAndPartitionWitness ==
    /\ last.op = "AiInsights"
    /\ Targets(last.req) \cap DOMAIN store # {}
    /\ Targets(last.req) \ DOMAIN store # {}
    /\ Len(last.body.insights) = 1
    /\ Len(last.body.missing) = 1

----------------------------------------------------------------------------
(* Claims about the store functions (SpecStore) *)

\* C16: get, update and delete called with an id that is not in the store
\* signal "not found" to the caller (an error, or for get the absent value)
\* instead of completing as an empty success, and leave the store unchanged.
StoreSignalsNotFound ==
    [][(/\ last'.op \in {"StoreGet", "StoreUpdate", "Delete"}
        /\ last'.req \notin DOMAIN store) =>
          /\ store' = store
          /\ \/ last'.err = "404"
             \/ last'.op = "StoreGet" /\ last'.body = None]_vars

----------------------------------------------------------------------------
(* Claims about the boundary operations (SpecBoundary) *)

\* C17: a predict request on a valid image returns its score and label to
\* the caller also when the prediction-log append fails.
PredictIndependentOfLog ==
    [][(/\ last'.op = "Predict"
        /\ strip(last'.req.image_base64) # <<>>
        /\ ImageOpens(b64decode(last'.req.image_base64))) =>
          /\ last'.err = "ok"
          /\ last'.body = [score |-> last'.req.out.score,
                           label |-> last'.req.out.label]]_vars

\* A payload that is empty (or blank), is not base64, or does not decode to
\* an image.
BadImagePayload(raw) ==
    \/ strip(raw) = <<>>
    \/ b64decode(raw) = BinasciiError
    \/ ~ImageOpens(b64decode(raw))

\* Number of entries before the first one with a bad image payload.
RECURSIVE GoodImagePrefix(_)
GoodImagePrefix(entries) ==
    IF entries = <<>> \/ BadImagePayload(Get(Head(entries).image_base64, <<>>)) THEN 0
    ELSE 1 + GoodImagePrefix(Tail(entries))

\* C18: predict and Upload validate the image bytes they receive: a payload
\* that is empty, is not valid base64, or decodes to something that is no
\* parseable image yields a validation failure (HTTP 400), and Upload creates
\* no record for such an entry.
ImageBytesValidated ==
    [][/\ (last'.op = "Predict" /\ BadImagePayload(last'.req.image_base64))
            => last'.err = "400"
       /\ (last'.op = "Upload" /\ GoodImagePrefix(last'.req) < Len(last'.req))
            => /\ last'.err = "400"
               /\ Cardinality(DOMAIN store' \ DOMAIN store)
                      <= GoodImagePrefix(last'.req)]_vars

====
